---------------------------- MODULE Spec2Model ----------------------------
(***************************************************************************)
(* DPORT Xtables target of neonKUBE: the kernel-side packet rewriter       *)
(* (xt_DPORT.c, dport_tg4) and the iptables userspace extension that       *)
(* compiles, checks, prints and saves its rule parameter (libxt_DPORT.c).  *)
(*                                                                         *)
(* A packet is a sequence of bytes that starts at the IPv4 header; text is *)
(* a sequence of one-character strings.                                    *)
(***************************************************************************)
EXTENDS Integers, Sequences, FiniteSets

VARIABLES
    \* ---- kernel side (xt_DPORT.c) ----
    variant,    \* which copy of xt_DPORT.c is built: "Tools" or "Archive"
    hostLE,     \* TRUE when the evaluating host is little-endian
    dport,      \* info->dport of the rule the packets are evaluated against
    skb,        \* skb[e]: the packet evaluation e works on
    skb0,       \* skb0[e]: the packet as the framework delivered it
    pc,         \* pc[e]: position of evaluation e inside dport_tg4
    iphProto,   \* iphProto[e]: iph->protocol as last fetched by evaluation e
    verdict,    \* verdict[e]: the value dport_tg4 returned, "none" while running
    granted,    \* granted[e]: byte span skb_make_writable succeeded for (0: none)
    mwCalls,    \* mwCalls[e]: number of skb_make_writable calls made
    mwFailed,   \* mwFailed[e]: TRUE when a skb_make_writable call returned 0
    wrote,      \* wrote[e]: offsets (from the network header) evaluation e stored to
    stray,      \* stray[e]: stores that landed outside the packet's linear buffer
    \* ---- userspace side (libxt_DPORT.c) ----
    argv,       \* options of the iptables invocation still to be parsed
    cpc,        \* position of the iptables invocation
    cflags,     \* *flags of the target being parsed
    cinfo,      \* info->dport of the target being parsed
    cseen,      \* TRUE once an accepted --to-port stored cinfo in this invocation
    cerr,       \* the error the invocation exited with, "none" otherwise
    ctext,      \* optarg of the last --to-port handed to dport_tg4_parse
    table,      \* the rule table: the installed rules, in order
    printed,    \* what dport_tg4_print wrote last, and for which rule
    saved,      \* what dport_tg4_save wrote last, and for which rule
    restoring   \* index of the rule whose saved text is being reloaded (0: none)

kvars == <<variant, hostLE, dport, skb, skb0, pc, iphProto, verdict, granted,
           mwCalls, mwFailed, wrote, stray>>
uvars == <<argv, cpc, cflags, cinfo, cseen, cerr, ctext, table, printed, saved,
           restoring>>
vars == <<kvars, uvars>>

----------------------------------------------------------------------------
(* Bounds of the model. *)

\* evaluations of dport_tg4 that run concurrently in SpecConc
NumEvals == 2
\* largest number of payload bytes after a full TCP header
MaxPayload == 2
\* fill patterns of the packet bytes are 0..MaxSeed
MaxSeed == 0
\* longest option text enumerated exhaustively
MaxTextLen == 3
\* rules the table holds at most
MaxRules == 2

----------------------------------------------------------------------------
(* Program constants. *)

IPPROTO_TCP == 6
IPPROTO_UDP == 17
IPPROTO_UDPLITE == 136
\* sizeof(struct iphdr), sizeof(struct tcphdr), sizeof(struct udphdr)
SizeofIphdr == 20
SizeofTcphdr == 20
SizeofUdphdr == 8
\* xtables_strtoui(optarg, NULL, &port, 1, 65535)
MinPort == 1
MaxPort == 65535
\* FLAGS_DPORT = 1 << 0
FLAGS_DPORT == 1

----------------------------------------------------------------------------
(* Byte order. *)

Swab16(v) == (v % 256) * 256 + (v \div 256)

\* cpu_to_le16: the value whose native representation is little-endian v
Cpu_to_le16(v, le) == IF le THEN v ELSE Swab16(v)

\* htons: the value whose native representation is big-endian v
Htons(v, le) == IF le THEN Swab16(v) ELSE v

\* the two bytes a native 16-bit store of v puts at ascending addresses
StoreU16(v, le) ==
    IF le THEN <<v % 256, v \div 256>> ELSE <<v \div 256, v % 256>>

\* the value assigned to tcph->dest / udph->dest by copy v of xt_DPORT.c
DestValue(v, p, le) ==
    IF v = "Tools" THEN Cpu_to_le16(p, le) ELSE Htons(p, le)

----------------------------------------------------------------------------
(* The packet buffer (struct sk_buff as dport_tg4 uses it). *)

\* ip_hdr(skb)->ihl and ip_hdr(skb)->protocol; the network header is at offset 0
IpIhl(s) == s.data[1] % 16
IpProtocol(s) == s.data[10]

\* offset of the destination port inside struct tcphdr and struct udphdr
DestOffset == 2

Fill(i, seed) == (7 * i + 3 + 101 * seed) % 256

\* a packet with an ihl-word IPv4 header, tlen bytes after it, of which the
\* first h are in the linear buffer with the network header
MkSkb(ihl, proto, tlen, h, seed) ==
    [ data |-> [i \in 1..(4 * ihl + tlen) |->
                  IF i = 1 THEN 64 + ihl
                  ELSE IF i = 10 THEN proto
                  ELSE Fill(i, seed)],
      headlen |-> 4 * ihl + h,
      transport_header |-> 4 * ihl ]

IhlValues == 5..15
Protocols == {IPPROTO_TCP, IPPROTO_UDP, IPPROTO_UDPLITE, 1, 47}
TransportLens == {0, 3, 4, SizeofUdphdr, SizeofTcphdr, SizeofTcphdr + MaxPayload}
Packets ==
    { MkSkb(ihl, proto, tlen, h, seed) :
        ihl \in IhlValues, proto \in Protocols,
        tlen \in TransportLens, h \in {0, 2, 4} \cup TransportLens,
        seed \in 0..MaxSeed }
DeliveredPackets == { s \in Packets : s.headlen <= Len(s.data) }

TestPorts == {0, 1, 255, 256, 8080, 65535}

\* skb_make_writable(skb, n) can succeed only if the packet has n bytes
CanMakeWritable(s, n) == n <= Len(s.data)

\* skb_make_writable(skb, n) succeeded: the first n bytes are linear and private
MadeWritable(s, n) ==
    [s EXCEPT !.headlen = IF n > s.headlen THEN n ELSE s.headlen]

\* faulty variant: the store goes to the source port, the first field of the header
StoreOffset_Source(s) == s.transport_header

\* offset of tcp_hdr(skb)->dest / udp_hdr(skb)->dest from the network header
StoreOffset(s) == s.transport_header + DestOffset

\* a store of byte b at offset off: inside the linear buffer it changes the packet
PokeData(s, off, b) ==
    IF off < s.headlen THEN [s EXCEPT !.data[off + 1] = b] ELSE s

PokeStray(s, off, b) ==
    IF off < s.headlen THEN {} ELSE {[off |-> off, val |-> b]}

----------------------------------------------------------------------------
(* Text: sequences of one-character strings. *)

DecDigits == <<"0", "1", "2", "3", "4", "5", "6", "7", "8", "9">>
DecDigitChars == {DecDigits[i] : i \in 1..10}
OctDigitChars == {DecDigits[i] : i \in 1..8}
HexLower == <<"a", "b", "c", "d", "e", "f">>
HexUpper == <<"A", "B", "C", "D", "E", "F">>
HexDigitChars ==
    DecDigitChars \cup {HexLower[i] : i \in 1..6} \cup {HexUpper[i] : i \in 1..6}
SpaceChars == {" ", "\t", "\n"}

\* the value of character c as a digit; 99 when it is no digit of any base
DigitVal(c) ==
    IF c \in DecDigitChars THEN (CHOOSE i \in 1..10 : DecDigits[i] = c) - 1
    ELSE IF \E i \in 1..6 : HexLower[i] = c
         THEN 9 + (CHOOSE i \in 1..6 : HexLower[i] = c)
    ELSE IF \E i \in 1..6 : HexUpper[i] = c
         THEN 9 + (CHOOSE i \in 1..6 : HexUpper[i] = c)
    ELSE 99

RECURSIVE FormatU_Hex(_)
\* faulty variant: the conversion is %x
FormatU_Hex(n) ==
    IF n < 16 THEN <<(DecDigits \o HexLower)[n + 1]>>
    ELSE FormatU_Hex(n \div 16) \o <<(DecDigits \o HexLower)[(n % 16) + 1]>>

RECURSIVE FormatU(_)
\* printf("%u", n)
FormatU(n) ==
    IF n < 10 THEN <<DecDigits[n + 1]>>
    ELSE FormatU(n \div 10) \o <<DecDigits[(n % 10) + 1]>>

RECURSIVE SkipSpace(_, _)
\* index of the first character of t at or after i that is not white space
SkipSpace(t, i) ==
    IF i <= Len(t) /\ t[i] \in SpaceChars THEN SkipSpace(t, i + 1) ELSE i

RECURSIVE ScanDigits(_, _, _, _)
\* consume the digits of the base from index i on: [value, next index].  The
\* value stops growing once it is past MaxPort: every larger value is handled
\* like it by the one caller, which rejects whatever exceeds MaxPort.
ScanDigits(t, i, base, acc) ==
    IF i <= Len(t) /\ DigitVal(t[i]) < base
    THEN ScanDigits(t, i + 1, base,
                    IF acc > MaxPort THEN acc ELSE acc * base + DigitVal(t[i]))
    ELSE [value |-> acc, next |-> i]

\* strtoumax(s, &my_end, 0): white space, an optional sign, then a number whose
\* base its prefix tells (0x: 16, 0: 8, else 10).  end counts the characters
\* consumed; 0 when nothing was converted.
Strtoumax(t) ==
    LET i == SkipSpace(t, 1)
        j == IF i <= Len(t) /\ t[i] \in {"+", "-"} THEN i + 1 ELSE i
        hex == /\ j + 2 <= Len(t)
               /\ t[j] = "0"
               /\ t[j + 1] \in {"x", "X"}
               /\ DigitVal(t[j + 2]) < 16
        base == IF hex THEN 16
                ELSE IF j <= Len(t) /\ t[j] = "0" THEN 8 ELSE 10
        first == IF hex THEN j + 2 ELSE j
        r == ScanDigits(t, first, base, 0)
    IN IF r.next = first THEN [value |-> 0, end |-> 0]
       ELSE [value |-> r.value, end |-> r.next - 1]

\* faulty variant: characters after the number are not looked at
Xtables_strtoui_IgnoresRest(t, min, max) ==
    LET p == SkipSpace(t, 1)
        r == Strtoumax(t)
    IN IF p <= Len(t) /\ t[p] = "-" THEN [ok |-> FALSE, value |-> 0]
       ELSE IF r.end = 0 THEN [ok |-> FALSE, value |-> 0]
       ELSE IF min <= r.value /\ (max = 0 \/ r.value <= max)
            THEN [ok |-> TRUE, value |-> r.value]
       ELSE [ok |-> FALSE, value |-> 0]

\* xtables_strtoui(s, NULL, &value, min, max): a leading minus is refused, the
\* whole text must be consumed and the value must lie in min..max
Xtables_strtoui(t, min, max) ==
    LET p == SkipSpace(t, 1)
        r == Strtoumax(t)
    IN IF p <= Len(t) /\ t[p] = "-" THEN [ok |-> FALSE, value |-> 0]
       ELSE IF r.end = 0 THEN [ok |-> FALSE, value |-> 0]
       ELSE IF min <= r.value /\ (max = 0 \/ r.value <= max)
            THEN [ok |-> r.end = Len(t), value |-> r.value]
       ELSE [ok |-> FALSE, value |-> 0]

\* .name of dport_tg_opts[0]; its .val is 't'
OptName == <<"t", "o", "-", "p", "o", "r", "t">>

\* printf(" to-port %u ", info->dport)
PrintText(p) == <<" ">> \o OptName \o <<" ">> \o FormatU(p) \o <<" ">>

\* faulty variant: save writes what print writes
SaveText_AsPrint(p) == PrintText(p)

\* printf(" --to-port %u ", info->dport)
SaveText(p) == <<" ", "-", "-">> \o OptName \o <<" ">> \o FormatU(p) \o <<" ">>

RECURSIVE WordEnd(_, _)
\* index after the last character of the word of t that starts at i
WordEnd(t, i) ==
    IF i <= Len(t) /\ t[i] \notin SpaceChars THEN WordEnd(t, i + 1) ELSE i

RECURSIVE Tokens(_)
\* the words of a line of saved rules
Tokens(t) ==
    LET i == SkipSpace(t, 1)
    IN IF i > Len(t) THEN <<>>
       ELSE <<SubSeq(t, i, WordEnd(t, i) - 1)>>
            \o Tokens(SubSeq(t, WordEnd(t, i), Len(t)))

RECURSIVE GetOpt(_)
\* the options the words stand for: --to-port <arg> is option 't' with its
\* argument, any other word is an option the target does not know ('?')
GetOpt(w) ==
    IF w = <<>> THEN <<>>
    ELSE IF w[1] = <<"-", "-">> \o OptName /\ Len(w) >= 2
         THEN <<[c |-> "t", arg |-> w[2]]>> \o GetOpt(SubSeq(w, 3, Len(w)))
    ELSE <<[c |-> "?", arg |-> w[1]]>> \o GetOpt(Tail(w))

----------------------------------------------------------------------------
(* dport_tg4: one evaluation e of the target on packet skb[e]. *)

TransportProtocols == {IPPROTO_TCP, IPPROTO_UDP, IPPROTO_UDPLITE}

Finish(e, v) ==
    /\ verdict' = [verdict EXCEPT ![e] = v]
    /\ pc' = [pc EXCEPT ![e] = "Done"]

\* if (info->dport == 0) return XT_CONTINUE;
Start(e) ==
    /\ pc[e] = "Start"
    /\ IF dport = 0
       THEN Finish(e, "XT_CONTINUE")
       ELSE /\ pc' = [pc EXCEPT ![e] = "Classify"]
            /\ UNCHANGED verdict
    /\ UNCHANGED <<variant, hostLE, dport, skb, skb0, iphProto, granted,
                   mwCalls, mwFailed, wrote, stray>>

\* faulty variant: the switch has no default case, other protocols are treated as UDP
Classify_NoDefault(e) ==
    /\ pc[e] = "Classify"
    /\ iphProto' = [iphProto EXCEPT ![e] = IpProtocol(skb[e])]
    /\ pc' = [pc EXCEPT ![e] = "Acquire"]
    /\ UNCHANGED <<variant, hostLE, dport, skb, skb0, verdict, granted,
                   mwCalls, mwFailed, wrote, stray>>

\* iph = ip_hdr(skb); switch (iph->protocol) { ... default: return XT_CONTINUE; }
Classify(e) ==
    /\ pc[e] = "Classify"
    /\ iphProto' = [iphProto EXCEPT ![e] = IpProtocol(skb[e])]
    /\ IF IpProtocol(skb[e]) \in TransportProtocols
       THEN /\ pc' = [pc EXCEPT ![e] = "Acquire"]
            /\ UNCHANGED verdict
       ELSE Finish(e, "XT_CONTINUE")
    /\ UNCHANGED <<variant, hostLE, dport, skb, skb0, granted,
                   mwCalls, mwFailed, wrote, stray>>

\* the span each case of the switch asks skb_make_writable for
WritableLen(proto) ==
    SizeofIphdr + (IF proto = IPPROTO_TCP THEN SizeofTcphdr ELSE SizeofUdphdr)

\* faulty variant: a failed skb_make_writable is ignored and the rewrite goes on
Acquire_IgnoresFailure(e) ==
    /\ pc[e] = "Acquire"
    /\ \E ok \in BOOLEAN :
         /\ ok => CanMakeWritable(skb[e], WritableLen(iphProto[e]))
         /\ mwCalls' = [mwCalls EXCEPT ![e] = @ + 1]
         /\ mwFailed' = [mwFailed EXCEPT ![e] = ~ok]
         /\ IF ok
            THEN /\ skb' = [skb EXCEPT ![e] = MadeWritable(@, WritableLen(iphProto[e]))]
                 /\ granted' = [granted EXCEPT ![e] = WritableLen(iphProto[e])]
            ELSE UNCHANGED <<skb, granted>>
         /\ pc' = [pc EXCEPT ![e] = "ReResolve"]
    /\ UNCHANGED <<variant, hostLE, dport, skb0, iphProto, verdict, wrote, stray>>

\* if (!skb_make_writable(skb, sizeof(struct iphdr) + sizeof(...))) return NF_DROP;
\* The call fails when the packet is shorter than the span, and may fail
\* whenever it has to copy a shared buffer or pull bytes into the linear one.
Acquire(e) ==
    /\ pc[e] = "Acquire"
    /\ \E ok \in BOOLEAN :
         /\ ok => CanMakeWritable(skb[e], WritableLen(iphProto[e]))
         /\ mwCalls' = [mwCalls EXCEPT ![e] = @ + 1]
         /\ mwFailed' = [mwFailed EXCEPT ![e] = ~ok]
         /\ IF ok
            THEN /\ skb' = [skb EXCEPT ![e] = MadeWritable(@, WritableLen(iphProto[e]))]
                 /\ granted' = [granted EXCEPT ![e] = WritableLen(iphProto[e])]
                 /\ pc' = [pc EXCEPT ![e] = "ReResolve"]
                 /\ UNCHANGED verdict
            ELSE /\ Finish(e, "NF_DROP")
                 /\ UNCHANGED <<skb, granted>>
    /\ UNCHANGED <<variant, hostLE, dport, skb0, iphProto, wrote, stray>>

\* iph = ip_hdr(skb);  fetched again after skb_make_writable
ReResolve(e) ==
    /\ pc[e] = "ReResolve"
    /\ iphProto' = [iphProto EXCEPT ![e] = IpProtocol(skb[e])]
    /\ pc' = [pc EXCEPT ![e] = "Rewrite"]
    /\ UNCHANGED <<variant, hostLE, dport, skb, skb0, verdict, granted,
                   mwCalls, mwFailed, wrote, stray>>

\* tcph->dest = ...; / udph->dest = ...;  a native 16-bit store
Rewrite(e) ==
    /\ pc[e] = "Rewrite"
    /\ IF iphProto[e] \in TransportProtocols
       THEN LET b == StoreU16(DestValue(variant, dport, hostLE), hostLE)
                off == StoreOffset(skb[e])
            IN /\ skb' = [skb EXCEPT
                            ![e] = PokeData(PokeData(@, off, b[1]), off + 1, b[2])]
               /\ stray' = [stray EXCEPT
                            ![e] = @ \cup PokeStray(skb[e], off, b[1])
                                     \cup PokeStray(skb[e], off + 1, b[2])]
               /\ wrote' = [wrote EXCEPT ![e] = @ \cup {off, off + 1}]
       ELSE UNCHANGED <<skb, stray, wrote>>
    /\ Finish(e, "XT_CONTINUE")
    /\ UNCHANGED <<variant, hostLE, dport, skb0, iphProto, granted, mwCalls, mwFailed>>

dport_tg4(e) ==
    \/ Start(e)
    \/ Classify(e)
    \/ Acquire(e)
    \/ ReResolve(e)
    \/ Rewrite(e)

----------------------------------------------------------------------------
(* The userspace side at rest. *)

NoOutput == [rule |-> 0, text |-> <<>>]

UserIdle ==
    /\ argv = <<>>
    /\ cpc = "idle"
    /\ cflags = 0
    /\ cinfo = 0
    /\ cseen = FALSE
    /\ cerr = "none"
    /\ ctext = <<>>
    /\ table = <<>>
    /\ printed = NoOutput
    /\ saved = NoOutput
    /\ restoring = 0

----------------------------------------------------------------------------
(* The iptables extension: one invocation parses the options of a rule,     *)
(* checks them and hands the rule to the rule table.                        *)

HasFlag(flags, bit) == (flags \div bit) % 2 = 1
SetFlag(flags, bit) == IF HasFlag(flags, bit) THEN flags ELSE flags + bit

\* a new invocation with options a: the target data is zeroed, no flag is set
BeginRule(a) ==
    /\ cpc \in {"idle", "error"}
    /\ argv' = a
    /\ cpc' = "args"
    /\ cflags' = 0
    /\ cinfo' = 0
    /\ cseen' = FALSE
    /\ cerr' = "none"
    /\ ctext' = <<>>
    /\ restoring' = 0
    /\ UNCHANGED <<table, printed, saved>>

\* dport_tg4_parse(c, ...) on the next option: for 't' a bad value ends the
\* invocation (xtables_param_act does not return), a good one is stored as
\* __u16 and FLAGS_DPORT is set; any other option is not taken (return false)
ParseOption ==
    /\ cpc = "args"
    /\ argv # <<>>
    /\ argv' = Tail(argv)
    /\ IF Head(argv).c = "t"
       THEN LET r == Xtables_strtoui(Head(argv).arg, MinPort, MaxPort)
            IN /\ ctext' = <<Head(argv).arg>>
               /\ IF r.ok
                  THEN /\ cinfo' = r.value % 65536
                       /\ cflags' = SetFlag(cflags, FLAGS_DPORT)
                       /\ cseen' = TRUE
                       /\ UNCHANGED <<cpc, cerr>>
                  ELSE /\ cerr' = "InvalidValue"
                       /\ cpc' = "error"
                       /\ UNCHANGED <<cinfo, cflags, cseen>>
       ELSE UNCHANGED <<cpc, cerr, ctext, cinfo, cflags, cseen>>
    /\ UNCHANGED <<table, printed, saved, restoring>>

\* faulty variant: the final check accepts whatever was parsed
FinalCheck_NoTest ==
    /\ cpc = "args"
    /\ argv = <<>>
    /\ cpc' = "checked"
    /\ UNCHANGED <<argv, cflags, cinfo, cseen, cerr, ctext, table, printed, saved,
                   restoring>>

\* dport_tg_check(flags), the final check once every option is parsed:
\* without FLAGS_DPORT xtables_error ends the invocation
FinalCheck ==
    /\ cpc = "args"
    /\ argv = <<>>
    /\ IF HasFlag(cflags, FLAGS_DPORT)
       THEN /\ cpc' = "checked"
            /\ UNCHANGED cerr
       ELSE /\ cpc' = "error"
            /\ cerr' = "MissingRequiredParameter"
    /\ UNCHANGED <<argv, cflags, cinfo, cseen, ctext, table, printed, saved,
                   restoring>>

\* the checked rule enters the rule table
Install ==
    /\ cpc = "checked"
    /\ Len(table) < MaxRules
    /\ table' = Append(table, [dport |-> cinfo, parsed |-> cseen])
    /\ cpc' = "idle"
    /\ UNCHANGED <<argv, cflags, cinfo, cseen, cerr, ctext, printed, saved,
                   restoring>>

\* dport_tg4_print for rule i of the table
PrintRule(i) ==
    /\ cpc = "idle"
    /\ printed' = [rule |-> i, text |-> PrintText(table[i].dport)]
    /\ UNCHANGED <<argv, cpc, cflags, cinfo, cseen, cerr, ctext, table, saved,
                   restoring>>

\* dport_tg4_save for rule i of the table
SaveRule(i) ==
    /\ cpc = "idle"
    /\ saved' = [rule |-> i, text |-> SaveText(table[i].dport)]
    /\ UNCHANGED <<argv, cpc, cflags, cinfo, cseen, cerr, ctext, table, printed,
                   restoring>>

\* the saved text is read back: a new invocation whose options are its words
Restore ==
    /\ cpc = "idle"
    /\ saved.rule # 0
    /\ argv' = GetOpt(Tokens(saved.text))
    /\ cpc' = "args"
    /\ cflags' = 0
    /\ cinfo' = 0
    /\ cseen' = FALSE
    /\ cerr' = "none"
    /\ ctext' = <<>>
    /\ restoring' = saved.rule
    /\ UNCHANGED <<table, printed, saved>>

\* no packet is being evaluated
KernelIdle ==
    /\ variant = "Tools"
    /\ hostLE = TRUE
    /\ dport = 0
    /\ skb = <<>>
    /\ skb0 = <<>>
    /\ pc = <<>>
    /\ iphProto = <<>>
    /\ verdict = <<>>
    /\ granted = <<>>
    /\ mwCalls = <<>>
    /\ mwFailed = <<>>
    /\ wrote = <<>>
    /\ stray = <<>>

----------------------------------------------------------------------------
(* One --to-port text taken through parse, check, install, print, save and  *)
(* reload.                                                                  *)

Alphabet == {"0", "1", "8", "x", "a", " ", "-", "+"}
ShortTexts == UNION { [1..n -> Alphabet] : n \in 0..MaxTextLen }
LongTexts ==
    { <<"6", "5", "5", "3", "5">>, <<"6", "5", "5", "3", "6">>,
      <<"6", "5", "5", "3", "7">>, <<"1", "3", "1", "0", "7", "3">>,
      <<"0", "x", "1", "F", "9", "0">>, <<"0", "X", "f", "f", "f", "f">>,
      <<"0", "x", "1", "0", "0", "0", "0">>, <<"0", "1", "7", "7", "7", "7", "7">>,
      <<"0", "2", "0", "0", "0", "0", "0">>, <<"a", "b", "c">>,
      <<"8", "0", "8", "0", " ">>, <<"8", "0", "8", "0", "a">>,
      <<"4", "2", "9", "4", "9", "6", "7", "2", "9", "7">> }
RoundTripPorts ==
    { p \in MinPort..MaxPort :
        \/ p <= 1100
        \/ p % 257 = 0
        \/ p % 1000 \in {0, 999}
        \/ p >= MaxPort - 100 }
PortTexts == { FormatU(p) : p \in RoundTripPorts }

InitText ==
    /\ \E t \in ShortTexts \cup LongTexts \cup PortTexts :
           argv = <<[c |-> "t", arg |-> t]>>
    /\ cpc = "args"
    /\ cflags = 0
    /\ cinfo = 0
    /\ cseen = FALSE
    /\ cerr = "none"
    /\ ctext = <<>>
    /\ table = <<>>
    /\ printed = NoOutput
    /\ saved = NoOutput
    /\ restoring = 0
    /\ KernelIdle

NextText ==
    \/ ParseOption /\ UNCHANGED kvars
    \/ FinalCheck /\ UNCHANGED kvars
    \/ Install /\ UNCHANGED kvars
    \/ \E i \in 1..Len(table) : PrintRule(i) /\ UNCHANGED kvars
    \/ \E i \in 1..Len(table) : SaveRule(i) /\ UNCHANGED kvars
    \/ Restore /\ UNCHANGED kvars

SpecText == InitText /\ [][NextText]_vars

----------------------------------------------------------------------------
(* Any sequence of iptables invocations. *)

CompileOptions ==
    { [c |-> "t", arg |-> <<"8", "0">>], [c |-> "t", arg |-> <<"0">>],
      [c |-> "t", arg |-> <<"0", "x", "5", "0">>],
      [c |-> "t", arg |-> <<"6", "5", "5", "3", "5">>],
      [c |-> "?", arg |-> <<"8", "0">>] }
CompileArgvs == UNION { [1..n -> CompileOptions] : n \in 0..2 }

InitCompile == UserIdle /\ KernelIdle

NextCompile ==
    \/ \E a \in CompileArgvs : BeginRule(a) /\ UNCHANGED kvars
    \/ ParseOption /\ UNCHANGED kvars
    \/ FinalCheck /\ UNCHANGED kvars
    \/ Install /\ UNCHANGED kvars
    \/ \E i \in 1..Len(table) : PrintRule(i) /\ UNCHANGED kvars
    \/ \E i \in 1..Len(table) : SaveRule(i) /\ UNCHANGED kvars
    \/ Restore /\ UNCHANGED kvars

SpecCompile == InitCompile /\ [][NextCompile]_vars

----------------------------------------------------------------------------
(* One packet evaluated against one rule. *)

InitEvals(E, pkts, ports) ==
    /\ variant \in {"Tools", "Archive"}
    /\ hostLE \in BOOLEAN
    /\ dport \in ports
    /\ skb \in [E -> pkts]
    /\ skb0 = skb
    /\ pc = [e \in E |-> "Start"]
    /\ iphProto = [e \in E |-> 0]
    /\ verdict = [e \in E |-> "none"]
    /\ granted = [e \in E |-> 0]
    /\ mwCalls = [e \in E |-> 0]
    /\ mwFailed = [e \in E |-> FALSE]
    /\ wrote = [e \in E |-> {}]
    /\ stray = [e \in E |-> {}]
    /\ UserIdle

InitRewrite == InitEvals({1}, DeliveredPackets, TestPorts)

NextRewrite ==
    \/ Start(1) /\ UNCHANGED uvars
    \/ Classify(1) /\ UNCHANGED uvars
    \/ Acquire(1) /\ UNCHANGED uvars
    \/ ReResolve(1) /\ UNCHANGED uvars
    \/ Rewrite(1) /\ UNCHANGED uvars

SpecRewrite == InitRewrite /\ [][NextRewrite]_vars

----------------------------------------------------------------------------
(* Evaluations of dport_tg4 running concurrently on distinct packets        *)
(* against the same rule; the steps of the evaluations interleave.          *)

ConcPackets ==
    { s \in DeliveredPackets :
        /\ IpIhl(s) \in {5, 6, 15}
        /\ IpProtocol(s) \in {IPPROTO_TCP, IPPROTO_UDP, 1}
        /\ Len(s.data) = 4 * IpIhl(s) + SizeofTcphdr + MaxPayload
        /\ s.headlen \in {4 * IpIhl(s), Len(s.data)}
        /\ s.data[2] = Fill(2, 0) }

InitConc == InitEvals(1..NumEvals, ConcPackets, {0, 8080})

NextConc == \E e \in 1..NumEvals : dport_tg4(e) /\ UNCHANGED uvars

SpecConc == InitConc /\ [][NextConc]_vars

----------------------------------------------------------------------------
(* Claims about the packet rewriter. *)

Evals == DOMAIN pc

IsTransport(s) == IpProtocol(s) \in TransportProtocols

\* the two destination-port bytes of packet s, when the packet holds them
DestBytes(s) ==
    <<s.data[s.transport_header + DestOffset + 1],
      s.data[s.transport_header + DestOffset + 2]>>

\* the wire (network, most significant byte first) encoding of port p
WireBytes(p) == <<p \div 256, p % 256>>

\* C1: for every target port in 1..65535 and every TCP, UDP or UDP-Lite packet
\* whose destination port lies in the span skb_make_writable granted, the two
\* destination-port bytes are the wire encoding of the port once dport_tg4 has
\* returned, whatever the byte order of the host.
C1_DestIsWireOrder ==
    \A e \in Evals :
        ( /\ pc[e] = "Done"
          /\ dport \in MinPort..MaxPort
          /\ IsTransport(skb0[e])
          /\ granted[e] >= skb0[e].transport_header + DestOffset + 2 )
        => DestBytes(skb[e]) = WireBytes(dport)

\* C2: for every target port in 1..65535 and every TCP, UDP or UDP-Lite
\* packet, every byte of the packet other than the two destination-port bytes
\* is the byte the framework delivered, at every point of the evaluation; the
\* packet keeps its length.
C2_OtherBytesUnchanged ==
    \A e \in Evals :
        (dport \in MinPort..MaxPort /\ IsTransport(skb0[e]))
        => /\ Len(skb[e].data) = Len(skb0[e].data)
           /\ \A i \in 1..Len(skb0[e].data) :
                 (i - 1) \notin { skb0[e].transport_header + DestOffset,
                                  skb0[e].transport_header + DestOffset + 1 }
                 => skb[e].data[i] = skb0[e].data[i]

\* C2 witness: a TCP packet with payload whose destination port was rewritten
C2_Witness ==
    \E e \in Evals :
        /\ pc[e] = "Done"
        /\ dport \in MinPort..MaxPort
        /\ IpProtocol(skb0[e]) = IPPROTO_TCP
        /\ Len(skb0[e].data) > skb0[e].transport_header + SizeofTcphdr
        /\ skb[e].data # skb0[e].data

\* C3: an evaluation returns NF_DROP exactly when its skb_make_writable call
\* failed; then the packet is as delivered, nothing was stored and the call was
\* made once; every other evaluation returns XT_CONTINUE.
C3_DropIffAcquireFailed ==
    \A e \in Evals :
        /\ mwCalls[e] <= 1
        /\ pc[e] = "Done" <=> verdict[e] # "none"
        /\ verdict[e] \in {"none", "XT_CONTINUE", "NF_DROP"}
        /\ pc[e] = "Done" => (verdict[e] = "NF_DROP" <=> mwFailed[e])
        /\ mwFailed[e] => /\ skb[e].data = skb0[e].data
                          /\ wrote[e] = {}
                          /\ stray[e] = {}

\* C3 witness: a full-length TCP packet dropped because the call failed
C3_Witness ==
    \E e \in Evals :
        /\ pc[e] = "Done"
        /\ verdict[e] = "NF_DROP"
        /\ mwFailed[e]
        /\ IpProtocol(skb0[e]) = IPPROTO_TCP
        /\ Len(skb0[e].data) >= WritableLen(IPPROTO_TCP)

\* C4: with target port 0, or with a packet that is not TCP, UDP or UDP-Lite,
\* the evaluation never calls skb_make_writable, leaves the packet as
\* delivered and returns XT_CONTINUE.
C4_InertIsNoOp ==
    \A e \in Evals :
        (dport = 0 \/ ~IsTransport(skb0[e]))
        => /\ mwCalls[e] = 0
           /\ granted[e] = 0
           /\ skb[e] = skb0[e]
           /\ wrote[e] = {}
           /\ stray[e] = {}
           /\ verdict[e] \in {"none", "XT_CONTINUE"}
           /\ pc[e] = "Done" => verdict[e] = "XT_CONTINUE"

\* C4 witness: a packet of another protocol passed through under a set port
C4_Witness ==
    \E e \in Evals :
        /\ pc[e] = "Done"
        /\ verdict[e] = "XT_CONTINUE"
        /\ dport # 0
        /\ ~IsTransport(skb0[e])

\* what evaluation e yields when it runs alone on the packet delivered to it,
\* given the outcome of its skb_make_writable call
SoloSkb(e) ==
    IF dport = 0 \/ ~IsTransport(skb0[e]) \/ mwFailed[e]
    THEN skb0[e]
    ELSE LET s == MadeWritable(skb0[e], WritableLen(IpProtocol(skb0[e])))
             b == StoreU16(DestValue(variant, dport, hostLE), hostLE)
         IN PokeData(PokeData(s, StoreOffset(s), b[1]), StoreOffset(s) + 1, b[2])

SoloVerdict(e) == IF mwFailed[e] THEN "NF_DROP" ELSE "XT_CONTINUE"

\* C9: under every interleaving of concurrent evaluations on distinct packets,
\* each evaluation stores only into the buffer of its own packet, a packet no
\* evaluation has started on is as delivered, and each packet's final contents
\* and verdict are those of the evaluation run alone.
C9_Isolated ==
    \A e \in Evals :
        /\ stray[e] = {}
        /\ pc[e] = "Start" => skb[e] = skb0[e]
        /\ pc[e] = "Done" => /\ skb[e] = SoloSkb(e)
                             /\ verdict[e] = SoloVerdict(e)

\* C10: for every TCP, UDP or UDP-Lite packet and every IPv4 header length,
\* the bytes the rewrite stores to lie inside the span skb_make_writable was
\* asked for and granted.
C10_StoreInsideGranted ==
    \A e \in Evals : \A off \in wrote[e] : off < granted[e]

----------------------------------------------------------------------------
(* Claims about the rule compiler. *)

AllIn(t, S) == \A i \in 1..Len(t) : t[i] \in S

RECURSIVE PosValue(_, _)
\* the number the digits of t write in the base; past MaxPort it stops
\* growing, every such number being out of range alike
PosValue(t, base) ==
    IF t = <<>> THEN 0
    ELSE LET v == PosValue(SubSeq(t, 1, Len(t) - 1), base)
         IN IF v > MaxPort THEN v ELSE v * base + DigitVal(t[Len(t)])

\* the decimal representation of a positive integer
IsDecLiteral(t) ==
    Len(t) >= 1 /\ t[1] \in DecDigitChars \ {"0"} /\ AllIn(t, DecDigitChars)
IsOctLiteral(t) == Len(t) >= 1 /\ t[1] = "0" /\ AllIn(t, OctDigitChars)
IsHexLiteral(t) ==
    /\ Len(t) >= 3
    /\ t[1] = "0"
    /\ t[2] \in {"x", "X"}
    /\ AllIn(SubSeq(t, 3, Len(t)), HexDigitChars)

LiteralValue(t) ==
    IF IsHexLiteral(t) THEN PosValue(SubSeq(t, 3, Len(t)), 16)
    ELSE IF IsOctLiteral(t) THEN PosValue(t, 8)
    ELSE PosValue(t, 10)

\* t without its leading white space and without one plus sign after it
Unsigned(t) ==
    LET r == SubSeq(t, SkipSpace(t, 1), Len(t))
    IN IF r # <<>> /\ r[1] = "+" THEN Tail(r) ELSE r

\* white space, an optional plus sign, then a decimal, octal (0...) or
\* hexadecimal (0x...) integer literal of a value in MinPort..MaxPort
IsPortLiteral(t) ==
    /\ IsDecLiteral(Unsigned(t)) \/ IsOctLiteral(Unsigned(t)) \/ IsHexLiteral(Unsigned(t))
    /\ LiteralValue(Unsigned(t)) \in MinPort..MaxPort

ParseSucceeded == cerr = "none"

\* C5 as stated: dport_tg4_parse succeeds for --to-port exactly when the text is
\* the decimal representation of an integer in 1..65535, and then stores it.
C5_ExactlyDecimal ==
    ctext # <<>> =>
        /\ ParseSucceeded <=>
              (IsDecLiteral(ctext[1]) /\ PosValue(ctext[1], 10) \in MinPort..MaxPort)
        /\ ParseSucceeded => cinfo = PosValue(ctext[1], 10)

\* C5 amended: dport_tg4_parse succeeds for --to-port exactly when the text is
\* optional white space, an optional plus sign and a decimal, octal or
\* hexadecimal integer literal of a value in 1..65535; it then stores that
\* value, unchanged, as the target port.  Every decimal representation of an
\* integer in 1..65535 is such a text.  Any other text ("0", "65536", "",
\* "abc" among them) ends the invocation with InvalidValue, and no rule with
\* port 0 or a truncated port enters the rule table.
C5_AcceptsPortLiterals ==
    /\ ctext # <<>> =>
          /\ ParseSucceeded <=> IsPortLiteral(ctext[1])
          /\ ParseSucceeded => /\ cinfo = LiteralValue(Unsigned(ctext[1]))
                               /\ cinfo \in MinPort..MaxPort
                               /\ cseen
          /\ ~ParseSucceeded => cerr = "InvalidValue" /\ cpc = "error"
          /\ (IsDecLiteral(ctext[1]) /\ PosValue(ctext[1], 10) \in MinPort..MaxPort)
                => ParseSucceeded /\ cinfo = PosValue(ctext[1], 10)
          /\ ctext[1] \in { <<"0">>, <<"6", "5", "5", "3", "6">>, <<>>,
                            <<"a", "b", "c">> } => ~ParseSucceeded
    /\ \A i \in 1..Len(table) : table[i].dport \in MinPort..MaxPort

\* C5 witness: a hexadecimal text was accepted and its rule installed
C5_Witness ==
    /\ ctext = << <<"0", "x", "1", "F", "9", "0">> >>
    /\ ParseSucceeded
    /\ Len(table) = 1
    /\ table[1].dport = 8080

\* C6: the final check passes only if --to-port was seen; without it the
\* invocation ends with MissingRequiredParameter and installs nothing, so every
\* rule of the table has a port that an accepted --to-port stored.
C6_InstalledRulesWereParsed ==
    /\ \A i \in 1..Len(table) :
          table[i].parsed /\ table[i].dport \in MinPort..MaxPort
    /\ cpc = "checked" => cseen /\ HasFlag(cflags, FLAGS_DPORT)
    /\ cerr = "MissingRequiredParameter" => ~cseen /\ cpc = "error"
    /\ cpc = "error" <=> cerr # "none"

\* C6 witness: an invocation without --to-port was refused while the table
\* holds a rule of an earlier invocation
C6_Witness ==
    /\ cerr = "MissingRequiredParameter"
    /\ cpc = "error"
    /\ ctext = <<>>
    /\ Len(table) >= 1

\* C7 as stated: for the same rule, dport_tg4_print and dport_tg4_save write
\* the same text.
C7_PrintEqualsSave ==
    (printed.rule # 0 /\ saved.rule = printed.rule) => printed.text = saved.text

\* C7 amended: for the same rule, dport_tg4_print writes " to-port <port> " and
\* dport_tg4_save writes " --to-port <port> ": the saved text is the printed
\* text with "--" before the option name, and both carry the port in decimal.
C7_SaveIsPrintWithDashes ==
    /\ printed.rule # 0 =>
          /\ Len(Tokens(printed.text)) = 2
          /\ Tokens(printed.text)[1] = OptName
          /\ IsDecLiteral(Tokens(printed.text)[2])
          /\ PosValue(Tokens(printed.text)[2], 10) = table[printed.rule].dport
    /\ (printed.rule # 0 /\ saved.rule = printed.rule) =>
          /\ saved.text = <<" ", "-", "-">> \o Tail(printed.text)
          /\ printed.text[1] = " "

\* C7 witness: the same rule was printed and saved
C7_Witness ==
    /\ printed.rule # 0
    /\ saved.rule = printed.rule
    /\ table[printed.rule].dport = 8080

\* C8: for every port p in 1..65535, the text saved for the rule parsed from
\* the decimal text of p is read back into a rule with the same port p.
C8_RoundTrip ==
    restoring # 0 =>
        /\ cerr = "none"
        /\ (cpc = "args" /\ argv # <<>>) =>
              /\ Len(argv) = 1
              /\ argv[1].c = "t"
              /\ IsDecLiteral(argv[1].arg)
        /\ (cpc = "checked" \/ (cpc = "args" /\ argv = <<>>)) =>
              cseen /\ cinfo = table[restoring].dport
        /\ cpc = "idle" => table[Len(table)].dport = table[restoring].dport

\* C8 witness: the rule parsed from "65535" was saved, read back and installed
C8_Witness ==
    /\ restoring = 1
    /\ cpc = "idle"
    /\ Len(table) = 2
    /\ table[1].dport = MaxPort
    /\ table[2].dport = MaxPort

=============================================================================
